---------------------------- MODULE Spec2Model ----------------------------
(***************************************************************************)
(* A model of src/src/dbmap/diffusion.py: the NMSlibTransformer neighbour  *)
(* graph wrapper, the Diffusor.fit_transform pipeline (neighbour graph,    *)
(* adaptive bandwidth, kernel, anisotropic correction, diffusion operator, *)
(* eigendecomposition) and the multiscale estimator.                       *)
(*                                                                         *)
(* Numbers.  The code computes in IEEE doubles.  Here a number is a pair   *)
(* <<n, d>> standing for n/d in lowest terms with d > 0; d = 0 encodes    *)
(* the IEEE specials: <<1,0>> = +inf, <<-1,0>> = -inf, <<0,0>> = NaN.      *)
(* Rounding is not modelled: arithmetic is exact.                          *)
(*                                                                         *)
(* Samples are points on the integer line, so a distance is |x_i - x_j|.   *)
(* A neighbour search returns the requested number of nearest points of    *)
(* the index, the query point itself included (at distance 0).             *)
(***************************************************************************)
EXTENDS Integers, Sequences, FiniteSets, TLC

\* ------------------------------------------------------------------ bounds
NSamples == 5       \* number of samples N handed to Diffusor.fit_transform
MaxPos == 4         \* sample coordinates range over 0..MaxPos
MaxCalls == 3       \* transform calls made on one NMSlibTransformer object
MsLen == 3          \* longest eigenvalue sequence handed to multiscale
EigDen == 2         \* eigenvalues handed to multiscale are n/EigDen, n in 0..EigDen

\* alpha = 0 switches the anisotropic correction off, alpha = 1 is the default
Alphas == {0, 1}

\* ------------------------------------------------------------ Python values
None == << >>
Some(x) == <<x>>

Abs(x) == IF x < 0 THEN -x ELSE x
Min(a, b) == IF a < b THEN a ELSE b

\* ------------------------------------------------------------- arithmetic
RECURSIVE GCD(_, _)
GCD(a, b) == IF b = 0 THEN a ELSE GCD(b, a % b)

Rat(n, d) == LET g == GCD(Abs(n), d) IN <<n \div g, d \div g>>

Zero == <<0, 1>>
One == <<1, 1>>
Inf == <<1, 0>>
NegInf == <<-1, 0>>
NaN == <<0, 0>>

IsFinite(a) == a[2] # 0
Sign(x) == IF x > 0 THEN 1 ELSE IF x < 0 THEN -1 ELSE 0

\* a + b
XAdd(a, b) ==
    IF IsFinite(a) /\ IsFinite(b)
    THEN LET g == GCD(a[2], b[2])
         IN  Rat(a[1] * (b[2] \div g) + b[1] * (a[2] \div g), (a[2] \div g) * b[2])
    ELSE IF a = NaN \/ b = NaN THEN NaN
    ELSE IF ~IsFinite(a) /\ ~IsFinite(b) THEN (IF a = b THEN a ELSE NaN)
    ELSE IF IsFinite(a) THEN b ELSE a

\* a * b
XMul(a, b) ==
    IF IsFinite(a) /\ IsFinite(b)
    THEN LET g1 == GCD(Abs(a[1]), b[2])
             g2 == GCD(Abs(b[1]), a[2])
         IN  <<(a[1] \div g1) * (b[1] \div g2), (a[2] \div g2) * (b[2] \div g1)>>
    ELSE IF a = NaN \/ b = NaN \/ a[1] = 0 \/ b[1] = 0 THEN NaN
    ELSE <<Sign(a[1]) * Sign(b[1]), 0>>

\* a / b (numpy: a division by zero gives inf or nan and a warning, no exception)
XDiv(a, b) ==
    IF a = NaN \/ b = NaN THEN NaN
    ELSE IF IsFinite(b) /\ b[1] # 0
         THEN XMul(a, <<Sign(b[1]) * b[2], Abs(b[1])>>)
    ELSE IF IsFinite(b)
         THEN <<Sign(a[1]), 0>>
    ELSE IF IsFinite(a) THEN Zero ELSE NaN

\* a ** p for an integer p >= 0
RECURSIVE XPow(_, _)
XPow(a, p) == IF p = 0 THEN One ELSE XMul(a, XPow(a, p - 1))

\* np.exp(-q).  exp takes no rational value except exp(0) = 1, so for finite q > 0
\* the value is replaced by 1/(1 + q): also 1 at q = 0, strictly decreasing and
\* strictly between 0 and 1 for q > 0.  exp(-inf) = 0 and exp(-nan) = nan are exact.
ExpNeg(q) ==
    IF q = NaN THEN NaN
    ELSE IF q = Inf THEN Zero
    ELSE IF q = NegInf THEN Inf
    ELSE Rat(q[2], q[2] + q[1])

\* ------------------------------------------------------------ sequences
RECURSIVE SumSeq(_)
SumSeq(s) == IF s = << >> THEN Zero ELSE XAdd(Head(s), SumSeq(Tail(s)))

\* a <= b for finite a and b
Leq(a, b) == a[1] * b[2] <= b[1] * a[2]

\* a permutation p of 1..Len(s) sorts the numbers s ascending
IsSortingPerm(p, s) ==
    /\ \A i, j \in DOMAIN p : i # j => p[i] # p[j]
    /\ \A i \in 1 .. Len(s) - 1 : Leq(s[p[i]], s[p[i + 1]])

\* np.argsort(s): the default kind is not stable, so ties may come in either order
ArgSorts(s) == {p \in [1 .. Len(s) -> 1 .. Len(s)] : IsSortingPerm(p, s)}

\* np.sort(s) of a sequence of integers
RECURSIVE NpSort(_)
NpSort(s) ==
    IF s = << >> THEN << >>
    ELSE LET i == CHOOSE k \in DOMAIN s : \A l \in DOMAIN s : s[k] <= s[l]
         IN  <<s[i]>> \o NpSort(SubSeq(s, 1, i - 1) \o SubSeq(s, i + 1, Len(s)))

\* s[::-1]
Reversed(s) == [i \in 1 .. Len(s) |-> s[Len(s) + 1 - i]]

\* Python's s[idx] with a 0-based, possibly negative idx; None when out of range
PyIndex(s, idx) ==
    IF idx >= 0 /\ idx < Len(s) THEN Some(s[idx + 1])
    ELSE IF idx < 0 /\ -idx <= Len(s) THEN Some(s[Len(s) + idx + 1])
    ELSE None

\* ------------------------------------------------------------- matrices
RowSum(M, i) == SumSeq(M[i])
Transposed(M) == [i \in DOMAIN M |-> [j \in DOMAIN M |-> M[j][i]]]
MatAdd(A, B) == [i \in DOMAIN A |-> [j \in DOMAIN A |-> XAdd(A[i][j], B[i][j])]]
\* diag(d) . M
DiagDot(d, M) == [i \in DOMAIN M |-> [j \in DOMAIN M |-> XMul(d[i], M[i][j])]]
\* M . diag(d)
DotDiag(M, d) == [i \in DOMAIN M |-> [j \in DOMAIN M |-> XMul(M[i][j], d[j])]]

\* ------------------------------------------------------- neighbour search
Dist(x, y) == Abs(x - y)

\* the position of index point j among the neighbours of a query at q, nearest
\* first, equal distances in index order
RankOf(index, q, j) ==
    1 + Cardinality({a \in DOMAIN index :
            \/ Dist(q, index[a]) < Dist(q, index[j])
            \/ Dist(q, index[a]) = Dist(q, index[j]) /\ a < j})

\* the k nearest index points of every query point, as rows of <<column, distance>>:
\* nmslib's knnQueryBatch(data, k) and sklearn's kneighbors_graph(data, mode='distance')
knnQueryBatch(index, data, k) ==
    [i \in DOMAIN data |->
        [r \in 1 .. Min(k, Len(index)) |->
            LET j == CHOOSE c \in DOMAIN index : RankOf(index, data[i], c) = r
            IN  <<j, Dist(data[i], index[j])>>]]

\* the stored distances of row i of a graph (csr .data[indptr[i] : indptr[i + 1]])
RowData(graph, i) == [r \in DOMAIN graph[i] |-> graph[i][r][2]]

\* NMSlibTransformer.__init__
NMSlibTransformer(k) == [n_neighbors |-> k, nmslib_ |-> None, n_samples_fit_ |-> 0]

\* NMSlibTransformer.fit
NMSfit(self, data) ==
    [self EXCEPT !.nmslib_ = Some(data), !.n_samples_fit_ = Len(data)]

\* NMSlibTransformer.transform: the object after the call, and the graph returned or
\* the error raised.  The index returns at most n_samples_fit_ neighbours; csr_matrix
\* rejects an indptr that runs past the data.
NMStransform(self, data) ==
    LET self2 == [self EXCEPT !.n_neighbors = @ + 1]
        k == self2.n_neighbors
        results == knnQueryBatch(self.nmslib_[1], data, k)
    IN  IF k > self.n_samples_fit_
        THEN [self |-> self2, graph |-> None, err |-> "ValueError"]
        ELSE [self |-> self2, graph |-> Some(results), err |-> "none"]

\* ------------------------------------------------- Diffusor.fit_transform
VARIABLES
    data,           \* the samples: coordinates on the line
    n_components,   \* Diffusor.n_components
    n_neighbors,    \* Diffusor.n_neighbors
    alpha,          \* Diffusor.alpha
    ann,            \* Diffusor.ann
    pc,             \* the position of the call in fit_transform
    searches,       \* calls made so far on a neighbour search provider (fit, query)
    akNN,           \* the neighbour graph (akNN, or knn when ann is False)
    adaptive_std,   \* the bandwidths sigma
    W,              \* the kernel weights
    kernel,         \* the kernel
    T,              \* the diffusion operator
    solver,         \* what eigs returned or raised
    D,              \* the degrees, later the eigenvalues
    V,              \* the eigenvectors, a sequence of columns
    res,            \* the dictionary returned
    err             \* the exception that left fit_transform, "none" if none

VARIABLES
    obj,            \* an NMSlibTransformer or multiscale object called repeatedly
    ctor,           \* its class and the arguments it was constructed with
    call            \* the last call made on it: its name, argument, result, error

pipeVars == <<data, n_components, n_neighbors, alpha, ann, pc, searches, akNN,
              adaptive_std, W, kernel, T, solver, D, V, res, err>>
callVars == <<obj, ctor, call>>
vars == <<pipeVars, callVars>>

N == Len(data)
Rows == 1 .. N

\* nondecreasing coordinate sequences of length n over 0..MaxPos starting at 0 (the
\* distances do not change when all samples are shifted)
Samples(n) ==
    {d \in [1 .. n -> 0 .. MaxPos] : d[1] = 0 /\ \A i \in 1 .. n - 1 : d[i] <= d[i + 1]}

\* the component counts requested: a few below N - 1, then N - 1 and N
ComponentCounts == (1 .. 3) \cup {NSamples - 1, NSamples}

\* int(np.floor(n_neighbors / 2))
adaptive_k == n_neighbors \div 2

PipeInit ==
    /\ data \in Samples(NSamples)
    /\ n_components \in ComponentCounts
    /\ n_neighbors \in 1 .. NSamples - 1
    /\ alpha \in Alphas
    /\ ann \in BOOLEAN
    /\ pc = "start"
    /\ searches = 0
    /\ akNN = None /\ adaptive_std = None /\ W = None /\ kernel = None /\ T = None
    /\ solver = [status |-> "not called"] /\ D = None /\ V = None /\ res = None
    /\ err = "none"

NoCall == [op |-> "none"]
CallsIdle ==
    /\ obj = [class |-> "none"]
    /\ ctor = [class |-> "none"]
    /\ call = NoCall

Raise(e) == pc' = "raised" /\ err' = e

\* lines 314-324 (ann) and 338-342 (exact): the neighbour graph
NeighborSearch ==
    /\ pc = "start"
    /\ IF ann
       THEN LET r == NMStransform(NMSfit(NMSlibTransformer(n_neighbors), data), data)
            IN  /\ searches' = 2
                /\ IF r.err = "none"
                   THEN akNN' = r.graph[1] /\ pc' = "knn" /\ err' = err
                   ELSE akNN' = akNN /\ Raise(r.err)
       ELSE /\ searches' = 2
            /\ akNN' = knnQueryBatch(data, data, n_neighbors)
            /\ pc' = "knn" /\ err' = err
    /\ UNCHANGED <<data, n_components, n_neighbors, alpha, ann, adaptive_std, W,
                   kernel, T, solver, D, V, res, callVars>>

\* lines 329-331: the entry of the sorted row at Python index adaptive_k - 1
AnnBandwidth(graph, i) == PyIndex(NpSort(RowData(graph, i)), adaptive_k - 1)

\* lines 345-347: the largest distance among the adaptive_k nearest points, the
\* sample itself included
ExactBandwidth(i) ==
    LET g == knnQueryBatch(data, data, adaptive_k)
        sorted == NpSort(RowData(g, i))
    IN  sorted[Len(sorted)]

\* lines 326-331 (ann) and 344-347 (exact): the bandwidths.  NearestNeighbors
\* rejects n_neighbors = 0.
Bandwidth ==
    /\ pc = "knn"
    /\ IF ann
       THEN IF \E i \in Rows : AnnBandwidth(akNN, i) = None
            THEN Raise("IndexError") /\ UNCHANGED <<adaptive_std, searches>>
            ELSE /\ adaptive_std' = [i \in Rows |-> AnnBandwidth(akNN, i)[1]]
                 /\ pc' = "bandwidth"
                 /\ UNCHANGED <<err, searches>>
       ELSE IF adaptive_k <= 0
            THEN Raise("ValueError") /\ UNCHANGED <<adaptive_std, searches>>
            ELSE /\ adaptive_std' = [i \in Rows |-> ExactBandwidth(i)]
                 /\ searches' = searches + 2
                 /\ pc' = "bandwidth"
                 /\ UNCHANGED err
    /\ UNCHANGED <<data, n_components, n_neighbors, alpha, ann, akNN, W,
                   kernel, T, solver, D, V, res, callVars>>

\* scipy.sparse.find: the entries <<x, y, dist>> of the graph whose value is not 0
find(graph) ==
    {e \in UNION {{<<i, graph[i][r][1], graph[i][r][2]>> : r \in DOMAIN graph[i]} :
                    i \in DOMAIN graph} : e[3] # 0}

\* lines 333-336 and 349-352: W[x][y] = exp(-dists / adaptive_std[x]) on the entries
\* find returns, 0 elsewhere
KernelWeights(graph, std) ==
    LET xyd == find(graph)
    IN  [i \in DOMAIN graph |-> [j \in DOMAIN graph |->
            IF \E e \in xyd : e[1] = i /\ e[2] = j
            THEN LET e == CHOOSE f \in xyd : f[1] = i /\ f[2] = j
                 IN  ExpNeg(XDiv(<<e[3], 1>>, <<std[i], 1>>))
            ELSE Zero]]

Weights ==
    /\ pc = "bandwidth"
    /\ W' = KernelWeights(akNN, adaptive_std)
    /\ pc' = "weights"
    /\ UNCHANGED <<data, n_components, n_neighbors, alpha, ann, searches, akNN,
                   adaptive_std, kernel, T, solver, D, V, res, err, callVars>>

\* line 356 / 362: np.ravel(kernel.sum(axis=1))
Degrees(K) == [i \in DOMAIN K |-> RowSum(K, i)]

\* line 354: W + W.T
Symmetrized(w) == MatAdd(w, Transposed(w))

\* line 359: D[D != 0] = D[D != 0] ** (-alpha)
NegPow(d, a) == [i \in DOMAIN d |-> IF d[i] # Zero THEN XDiv(One, XPow(d[i], a)) ELSE d[i]]

\* mat.dot(kernel): the scaling applied on the left only
AnisotropicLeftOnly(K, a) == DiagDot(NegPow(Degrees(K), a), K)

\* lines 359-361: mat.dot(kernel).dot(mat) with mat = diag(D ** (-alpha))
Anisotropic(K, a) ==
    LET mat == NegPow(Degrees(K), a) IN DotDiag(DiagDot(mat, K), mat)

\* lines 354-362: the kernel and its degrees
KernelOf(w, a) == IF a > 0 THEN Anisotropic(Symmetrized(w), a) ELSE Symmetrized(w)

KernelConstruction ==
    /\ pc = "weights"
    /\ kernel' = KernelOf(W, alpha)
    /\ D' = Degrees(kernel')
    /\ pc' = "kernel"
    /\ UNCHANGED <<data, n_components, n_neighbors, alpha, ann, searches, akNN,
                   adaptive_std, W, T, solver, V, res, err, callVars>>

\* line 363: D[D != 0] = 1 / D[D != 0]
Reciprocal(d) == [i \in DOMAIN d |-> IF d[i] # Zero THEN XDiv(One, d[i]) ELSE d[i]]

\* kernel . diag(1 / D): the columns scaled in place of the rows
OperatorColumnScaled(d, K) == DotDiag(K, Reciprocal(d))

\* lines 363-366: T = diag(1 / D) . kernel
OperatorOf(d, K) == DiagDot(Reciprocal(d), K)

DiffusionOperator ==
    /\ pc = "kernel"
    /\ D' = Reciprocal(D)
    /\ T' = OperatorOf(D, kernel)
    /\ pc' = "operator"
    /\ UNCHANGED <<data, n_components, n_neighbors, alpha, ann, searches, akNN,
                   adaptive_std, W, kernel, solver, V, res, err, callVars>>

\* the eigenvector the solver pairs with its i-th eigenvalue: the columns are
\* pairwise different
SolverVector(n, i) == [r \in 1 .. n |-> r + i]

\* the eigenvalue sequences a solver run may return for c components.  Lines 372-374
\* read only their order, so the values are ranks 0, 1, ... with no rank skipped.
SolverValues(c) ==
    {[i \in 1 .. c |-> <<v[i], 1>>] : v \in
        {w \in [1 .. c -> 0 .. c - 1] :
            \A x \in 1 .. c - 1 : (\E i \in 1 .. c : w[i] = x) => \E j \in 1 .. c : w[j] = x - 1}}

\* line 369: scipy's eigs rejects k >= N - 1 for a sparse operator (TypeError); else it
\* returns k eigenpairs in the solver's order, or raises ArpackNoConvergence after
\* maxiter iterations.  Lines 370-371 keep the real parts.
EigenSolve ==
    /\ pc = "operator"
    /\ IF n_components >= N - 1
       THEN /\ solver' = [status |-> "rejected"]
            /\ Raise("TypeError")
            /\ UNCHANGED <<D, V>>
       ELSE \/ /\ solver' = [status |-> "noconv"]
               /\ Raise("ArpackNoConvergence")
               /\ UNCHANGED <<D, V>>
            \/ \E vals \in SolverValues(n_components) :
                 /\ solver' = [status |-> "converged", D |-> vals,
                               V |-> [i \in 1 .. n_components |-> SolverVector(N, i)]]
                 /\ D' = solver'.D
                 /\ V' = solver'.V
                 /\ pc' = "eigs"
                 /\ UNCHANGED err
    /\ UNCHANGED <<data, n_components, n_neighbors, alpha, ann, searches, akNN,
                   adaptive_std, W, kernel, T, res, callVars>>

\* line 372: np.argsort(D)[::-1]
DescendingOrders(d) == {Reversed(p) : p \in ArgSorts(d)}

\* line 373: D[inds]
Take(s, inds) == [i \in DOMAIN inds |-> s[inds[i]]]

\* the eigenvectors left in the solver's order
ColumnsUnpermuted(v, inds) == v

\* line 374: V[:, inds]
TakeColumns(v, inds) == Take(v, inds)

\* lines 372-374
SortEigenpairs ==
    /\ pc = "eigs"
    /\ \E inds \in DescendingOrders(D) :
         /\ D' = Take(D, inds)
         /\ V' = TakeColumns(V, inds)
    /\ pc' = "sorted"
    /\ UNCHANGED <<data, n_components, n_neighbors, alpha, ann, searches, akNN,
                   adaptive_std, W, kernel, T, solver, res, err, callVars>>

\* the square of np.linalg.norm(v)
Norm2(v) == LET sq == [i \in DOMAIN v |-> <<v[i] * v[i], 1>>] IN SumSeq(sq)[1]

\* line 378: V[:, i] / np.linalg.norm(V[:, i]), kept as the column and the square of
\* the norm it is divided by
Normalized(v) == [vec |-> v, norm2 |-> Norm2(v)]

\* lines 376-397
Return ==
    /\ pc = "sorted"
    /\ V' = [i \in DOMAIN V |-> Normalized(V[i])]
    /\ res' = Some([T |-> T, EigenVectors |-> V', EigenValues |-> D, kernel |-> kernel])
    /\ pc' = "returned"
    /\ UNCHANGED <<data, n_components, n_neighbors, alpha, ann, searches, akNN,
                   adaptive_std, W, kernel, T, solver, D, err, callVars>>

PipeNext ==
    \/ NeighborSearch
    \/ Bandwidth
    \/ Weights
    \/ KernelConstruction
    \/ DiffusionOperator
    \/ EigenSolve
    \/ SortEigenpairs
    \/ Return

Init == PipeInit /\ CallsIdle
Next == PipeNext
Spec == Init /\ [][Next]_vars

\* ------------------------------------------------------------- multiscale
\* multiscale.__init__
multiscale(n_eigs) == [n_eigs |-> n_eigs]

\* what KneeLocator(x, y, ...).knee may be for x = 1..len(ev): one of the x, or None
\* when the locator finds no knee
Knees(ev) == {None} \cup {Some(x) : x \in 1 .. Len(ev)}

\* multiscale.fit, lines 215-238: the object after the call and the error raised
\* (round(None) is a TypeError)
MSfit(self, result, knee) ==
    IF self.n_eigs # None THEN [self |-> self, err |-> "none"]
    ELSE IF knee = None THEN [self |-> self, err |-> "TypeError"]
    ELSE [self |-> [self EXCEPT !.n_eigs = knee], err |-> "none"]

\* line 244: vals[: len(vals) - 1] - vals[1:]
Drops(vals) == [i \in 1 .. Len(vals) - 1 |-> XAdd(vals[i], <<-vals[i + 1][1], vals[i + 1][2]>>)]

\* lines 242-246 with order = np.argsort(drops), as 1-based positions: n_eigs and the
\* error raised.  order[-1] + 1 in 0-based indices is the 1-based position itself.
SelectEigs(self, vals, order) ==
    IF self.n_eigs # None THEN [self |-> self, err |-> "none"]
    ELSE IF PyIndex(order, -1) = None THEN [self |-> self, err |-> "IndexError"]
    ELSE LET first == PyIndex(order, -1)[1] IN
         IF first >= 3 THEN [self |-> [self EXCEPT !.n_eigs = Some(first)], err |-> "none"]
         ELSE IF PyIndex(order, -2) = None
              THEN [self |-> [self EXCEPT !.n_eigs = Some(first)], err |-> "IndexError"]
              ELSE [self |-> [self EXCEPT !.n_eigs = Some(PyIndex(order, -2)[1] + 1)],
                    err |-> "none"]

\* list(range(0, n_eigs - 1)): the columns taken from eigenvector 0 on
use_eigs_from_zero(n_eigs) == [c \in 1 .. n_eigs - 1 |-> c]

\* line 249: list(range(1, n_eigs)), as the 1-based positions of those columns
use_eigs(n_eigs) == [c \in 1 .. n_eigs - 1 |-> c + 1]

\* line 251: eig_vals / (1 - eig_vals)
ScaleOf(ev) == XDiv(ev, XAdd(One, <<-ev[1], ev[2]>>))

\* lines 249-254: the columns of the embedding; selecting a column the result does
\* not have is a KeyError
Embedding(n_eigs, result) ==
    LET cols == use_eigs(n_eigs) IN
    IF \E c \in DOMAIN cols : cols[c] > Len(result.EigenValues)
    THEN [out |-> None, err |-> "KeyError"]
    ELSE [out |-> Some([c \in DOMAIN cols |->
                    [r \in DOMAIN result.EigenVectors[cols[c]] |->
                        XMul(<<result.EigenVectors[cols[c]][r], 1>>,
                             ScaleOf(result.EigenValues[cols[c]]))]]),
          err |-> "none"]

\* multiscale.transform, lines 240-254
MStransform(self, result, order) ==
    LET sel == SelectEigs(self, result.EigenValues, order) IN
    IF sel.err # "none" THEN [self |-> sel.self, out |-> None, err |-> sel.err]
    ELSE LET e == Embedding(sel.self.n_eigs[1], result)
         IN  [self |-> sel.self, out |-> e.out, err |-> e.err]

\* ------------------------------------------- repeated calls on one object
\* the results handed to multiscale: c <= MsLen eigenvalues n/EigDen in descending
\* order, and c pairwise different eigenvectors over two samples
Spectra(c) ==
    {[i \in 1 .. c |-> Rat(v[i], EigDen)] : v \in
        {w \in [1 .. c -> 0 .. EigDen] : \A i \in 1 .. c - 1 : w[i] >= w[i + 1]}}

Results ==
    UNION {{[EigenValues |-> ev, EigenVectors |-> [j \in 1 .. c |-> <<j - 2, j>>]] :
                ev \in Spectra(c)} : c \in 1 .. MsLen}

\* the samples indexed by the NMSlibTransformer: equally spaced, or all equal
EvenSamples == {d \in Samples(NSamples) : \A i \in 1 .. NSamples - 1 : d[i + 1] - d[i] = d[2]}

PipeIdle ==
    /\ data = None /\ n_components = 0 /\ n_neighbors = 0 /\ alpha = 0 /\ ann = FALSE
    /\ pc = "idle" /\ searches = 0
    /\ akNN = None /\ adaptive_std = None /\ W = None /\ kernel = None /\ T = None
    /\ solver = [status |-> "not called"] /\ D = None /\ V = None /\ res = None
    /\ err = "none"

\* NMSlibTransformer(n_neighbors=k) or multiscale(n_eigs=m), m possibly None
CallsInit ==
    /\ \/ \E k \in 1 .. NSamples - 1 :
            /\ ctor = [class |-> "NMSlibTransformer", n_neighbors |-> k]
            /\ obj = NMSlibTransformer(k)
       \/ \E m \in {None} \cup {Some(x) : x \in 1 .. MsLen} :
            /\ ctor = [class |-> "multiscale", n_eigs |-> m]
            /\ obj = multiscale(m)
    /\ call = NoCall

\* obj.fit(data) on an NMSlibTransformer
CallFit ==
    /\ ctor.class = "NMSlibTransformer"
    /\ obj.nmslib_ = None
    /\ \E d \in EvenSamples :
         /\ obj' = NMSfit(obj, d)
         /\ call' = [op |-> "fit", before |-> obj, arg |-> d, out |-> None, err |-> "none"]
    /\ UNCHANGED <<ctor, pipeVars>>

\* obj.transform(data) on an NMSlibTransformer, with the samples it was fitted on
CallTransform ==
    /\ ctor.class = "NMSlibTransformer"
    /\ obj.nmslib_ # None
    /\ obj.n_neighbors < ctor.n_neighbors + MaxCalls
    /\ LET r == NMStransform(obj, obj.nmslib_[1])
       IN  /\ obj' = r.self
           /\ call' = [op |-> "transform", before |-> obj, arg |-> obj.nmslib_[1],
                       out |-> r.graph, err |-> r.err]
    /\ UNCHANGED <<ctor, pipeVars>>

\* obj.fit(res) on a multiscale
CallMsFit ==
    /\ ctor.class = "multiscale"
    /\ \E r \in Results : \E knee \in Knees(r.EigenValues) :
         LET f == MSfit(obj, r, knee)
         IN  /\ obj' = f.self
             /\ call' = [op |-> "fit", before |-> obj, arg |-> r, out |-> None,
                         err |-> f.err]
    /\ UNCHANGED <<ctor, pipeVars>>

\* obj.transform(res) on a multiscale
CallMsTransform ==
    /\ ctor.class = "multiscale"
    /\ \E r \in Results : \E order \in ArgSorts(Drops(r.EigenValues)) :
         LET t == MStransform(obj, r, order)
         IN  /\ obj' = t.self
             /\ call' = [op |-> "transform", before |-> obj, arg |-> r, out |-> t.out,
                         err |-> t.err]
    /\ UNCHANGED <<ctor, pipeVars>>

CallsNext ==
    \/ CallFit
    \/ CallTransform
    \/ CallMsFit
    \/ CallMsTransform

InitCalls == PipeIdle /\ CallsInit
SpecCalls == InitCalls /\ [][CallsNext]_vars

\* ================================================================ claims
Computed(x) == x # None
EdgesOf(graph) ==
    UNION {{<<i, graph[i][r][1], graph[i][r][2]>> : r \in DOMAIN graph[i]} : i \in DOMAIN graph}
IsZeroRow(M, i) == \A j \in DOMAIN M : M[i][j] = Zero

\* C1: in the result of fit_transform every row of T whose kernel degree is nonzero
\* sums to 1, and every row whose kernel degree is zero is all zero (sums to 0).
C1_RowsStochastic ==
    pc = "returned" =>
        \A i \in Rows :
            /\ RowSum(res[1].kernel, i) # Zero => RowSum(res[1].T, i) = One
            /\ RowSum(res[1].kernel, i) = Zero => IsZeroRow(res[1].T, i)

\* a returned operator under anisotropic correction with a zero-degree row, a
\* nonzero-degree row, and two rows of different degree
C1_Witness ==
    /\ pc = "returned" /\ alpha > 0
    /\ \E i, j, l \in Rows :
         /\ RowSum(res[1].kernel, i) = Zero
         /\ RowSum(res[1].kernel, j) # Zero
         /\ RowSum(res[1].kernel, l) # Zero
         /\ RowSum(res[1].kernel, j) # RowSum(res[1].kernel, l)
         /\ RowSum(res[1].T, j) = One

C3_FailFast ==
    n_components >= N =>
        /\ searches = 0
        /\ pc = "raised" => err = "ConfigurationError"

\* C5: every stored edge (i, j) of the neighbour graph whose row has bandwidth 0
\* gets kernel weight W[i][j] = 1.
C5_ZeroBandwidthFullWeight ==
    Computed(W) =>
        \A e \in EdgesOf(akNN) :
            (e[1] # e[2] /\ adaptive_std[e[1]] = 0) => W[e[1]][e[2]] = One

\* the sorted row at 1-based position p
NthSmallest(s, p) == NpSort(s)[p]
NonZero(s) == SelectSeq(s, LAMBDA x : x # 0)

\* C8: sigma_i is the adaptive_k-th smallest of the nonzero distances of row i (the
\* zero self-distance is not counted), for every row that has that many.
C8_BandwidthSkipsSelf ==
    (Computed(adaptive_std) /\ adaptive_k >= 1) =>
        \A i \in Rows :
            Len(NonZero(RowData(akNN, i))) >= adaptive_k =>
                adaptive_std[i] = NthSmallest(NonZero(RowData(akNN, i)), adaptive_k)

IsPermutation(p, c) == \A i, j \in 1 .. c : i # j => p[i] # p[j]
\* the vector a column of V holds (after line 378, the vector that was normalised)
ColumnOf(v) == IF pc = "returned" THEN v.vec ELSE v

\* C7: after the sort step the eigenvalues are in non-increasing order and one
\* permutation of the solver's pairs gives both the eigenvalues and the columns.
C7_SortedPairs ==
    pc \in {"sorted", "returned"} =>
        /\ \A i \in 1 .. Len(D) - 1 : Leq(D[i + 1], D[i])
        /\ Len(D) = n_components /\ Len(V) = n_components
        /\ \E p \in [1 .. n_components -> 1 .. n_components] :
             /\ IsPermutation(p, n_components)
             /\ \A i \in 1 .. n_components :
                  D[i] = solver.D[p[i]] /\ ColumnOf(V[i]) = solver.V[p[i]]

\* sorted eigenpairs of a solver run that returned three eigenvalues in an order
\* that is neither descending nor ascending
C7_Witness ==
    /\ pc = "sorted" /\ n_components = 3
    /\ \E i \in Rows : ~IsZeroRow(T, i)
    /\ solver.D[1][1] < solver.D[3][1] /\ solver.D[3][1] < solver.D[2][1]
    /\ V[1] = solver.V[2] /\ V[3] = solver.V[1]

\* C10: when the solver does not converge, fit_transform still returns a result
\* with the eigenpairs found so far.
C10_NonConvergenceReturns ==
    solver.status = "noconv" =>
        /\ pc # "raised"
        /\ pc = "returned" => Computed(res)

\* C4: repeated calls on one object are independent: every transform of an
\* NMSlibTransformer built with n_neighbors = k returns a graph with k + 1 stored
\* distances per row, and every fit of a multiscale built with n_eigs unset selects
\* the dimension among the eigenvalues of the result it is given.
C4_CallsIndependent ==
    /\ (ctor.class = "NMSlibTransformer" /\ call.op = "transform") =>
            /\ call.err = "none"
            /\ \A i \in DOMAIN call.out[1] : Len(call.out[1][i]) = ctor.n_neighbors + 1
    /\ (ctor.class = "multiscale" /\ ctor.n_eigs = None /\ call.op = "fit"
            /\ call.err = "none") =>
            /\ obj.n_eigs # None
            /\ obj.n_eigs[1] \in 1 .. Len(call.arg.EigenValues)

\* column j of an embedding is eigenvector j (0-based) scaled by ev / (1 - ev), stated
\* without the division: the column times (1 - ev) is the eigenvector times ev; for
\* ev = 1 the entries are +inf, -inf or nan by the sign of the eigenvector's
C6_Column(out, result, j) ==
    LET ev == result.EigenValues[j + 1]
        vec == result.EigenVectors[j + 1]
    IN  /\ Len(out[j]) = Len(vec)
        /\ \A r \in DOMAIN vec :
             IF ev = One
             THEN out[j][r] = <<Sign(vec[r]), 0>>
             ELSE /\ IsFinite(out[j][r])
                  /\ out[j][r][1] * ev[2] * (ev[2] - ev[1]) = vec[r] * ev[1] * ev[2] * out[j][r][2]

\* C6: with an explicit dimension m, 1 < m <= c, transform returns m - 1 columns and
\* column j is eigenvector j times eigenvalue_j / (1 - eigenvalue_j), j = 1..m-1
\* (0-based: eigenvector 0 is left out).
C6_ExplicitEmbedding ==
    (/\ ctor.class = "multiscale" /\ call.op = "transform"
     /\ ctor.n_eigs # None
     /\ 1 < ctor.n_eigs[1] /\ ctor.n_eigs[1] <= Len(call.arg.EigenValues)) =>
        /\ call.err = "none"
        /\ Len(call.out[1]) = ctor.n_eigs[1] - 1
        /\ \A j \in 1 .. ctor.n_eigs[1] - 1 : C6_Column(call.out[1], call.arg, j)

\* a transform with m = 3 of a result with three eigenvalues, the two used
\* different and the first of them neither 0 nor 1
C6_Witness ==
    /\ ctor.class = "multiscale" /\ call.op = "transform"
    /\ ctor.n_eigs = Some(3) /\ Len(call.arg.EigenValues) = 3
    /\ call.arg.EigenValues[2] \notin {Zero, One}
    /\ call.arg.EigenValues[3] # call.arg.EigenValues[2]
    /\ call.err = "none" /\ Len(call.out[1]) = 2

\* C9: with n_eigs None, transform of any descending eigenvalue sequence of length
\* c >= 2 ends without error and leaves n_eigs = m with 1 < m <= c.
C9_FallbackSelects ==
    (/\ ctor.class = "multiscale" /\ call.op = "transform"
     /\ call.before.n_eigs = None
     /\ Len(call.arg.EigenValues) >= 2) =>
        /\ call.err = "none"
        /\ obj.n_eigs # None
        /\ 1 < obj.n_eigs[1] /\ obj.n_eigs[1] <= Len(call.arg.EigenValues)

=============================================================================
